---------------------------- MODULE Spec2Model ----------------------------
(* A model of pytext/task/tasks.py: the ensemble task's training           *)
(* delegation, the three format_prediction generators and the declared     *)
(* Config fields of every task variant.                                    *)
EXTENDS Integers, Sequences, FiniteSets, TLC

VARIABLES
    models,        \* EnsembleTask.model.models: the ordered sub-model objects
    params,        \* sub-model object -> number of training passes it received
    calls,         \* log of the calls made on data_handler and trainer
    invocation,    \* arguments of the latest train_single_model invocation
    n_invocations, \* how many times train_single_model was invoked
    result,        \* outcome of the latest train_single_model invocation
    cls,           \* the task class whose format_prediction is used
    predictions,   \* format_prediction argument
    scores,        \* format_prediction argument
    context,       \* format_prediction argument
    target_meta,   \* format_prediction argument
    pc,            \* state of the generator object
    out,           \* the records delivered to the consumer so far
    config         \* outcome of the latest Config construction

vars == <<models, params, calls, invocation, n_invocations, result,
          cls, predictions, scores, context, target_meta, pc, out, config>>

ensembleVars == <<models, params, calls, invocation, n_invocations, result>>
formatVars == <<cls, predictions, scores, context, target_meta, pc, out>>
inputVars == <<cls, predictions, scores, context, target_meta>>

(* ------------------------------ bounds -------------------------------- *)
MaxModels == 2
MaxCalls == 2
MaxExamples == 2
MaxTokens == 2
MaxVocab == 2

(* ------------------------- Python primitives -------------------------- *)
Min(a, b) == IF a <= b THEN a ELSE b

\* list[i] succeeds for -len <= i < len and raises IndexError otherwise
PyIndexValid(list, i) == i >= 0 - Len(list) /\ i < Len(list)

\* list[i] with Python's 0-based and negative indexing
PyGetItem(list, i) == IF i >= 0 THEN list[i + 1] ELSE list[Len(list) + i + 1]

\* {n: s for n, s in zip(names, values)}: zip stops at the shorter sequence,
\* a repeated key keeps the value of its last occurrence
ZipDict(names, values) ==
    LET m == Min(Len(names), Len(values))
        last(n) == CHOOSE k \in 1..m :
                       names[k] = n /\ \A j \in 1..m : names[j] = n => j <= k
    IN  [n \in {names[k] : k \in 1..m} |-> values[last(n)]]

(* ============================ EnsembleTask ============================= *)
DefaultRank == 0
DefaultWorldSize == 1

NoInvocation == [model_id |-> 0, kwargs |-> [rank |-> {}, world_size |-> {}]]
NoResult == [kind |-> "none"]

\* keyword arguments a caller may pass or leave out (a set of at most one value)
Kwargs == [rank : {{}, {0}, {1}}, world_size : {{}, {1}, {2}}]

ArgOrDefault(given, default) == IF given = {} THEN default ELSE CHOOSE x \in given : TRUE

\* data_handler.get_train_iter(rank, world_size) and get_eval_iter()
TrainIter(rank, world_size) == [iter |-> "train", rank |-> rank, world_size |-> world_size]
EvalIter == [iter |-> "eval"]

\* trainer.train_single_model trains the model it is handed
TrainerTrain(ps, model) == [ps EXCEPT ![model] = @ + 1]

AssertModelIdBelow(model_id, ms) == model_id >= 0 /\ model_id <= Len(ms)
AssertModelId(model_id, ms) == model_id >= 0 /\ model_id < Len(ms)

SubModelFirst(ms, model_id) == PyGetItem(ms, 0)
SubModel(ms, model_id) == PyGetItem(ms, model_id)

TrainSingleModel(model_id, kwargs) ==
    LET rank == ArgOrDefault(kwargs.rank, DefaultRank)
        world_size == ArgOrDefault(kwargs.world_size, DefaultWorldSize)
        train_iter == TrainIter(rank, world_size)
        eval_iter == EvalIter
        iter_calls == << [fn |-> "get_train_iter", args |-> <<rank, world_size>>],
                         [fn |-> "get_eval_iter", args |-> <<>>] >>
    IN  /\ n_invocations < MaxCalls
        /\ n_invocations' = n_invocations + 1
        /\ invocation' = [model_id |-> model_id, kwargs |-> kwargs]
        /\ IF ~AssertModelId(model_id, models)
           THEN /\ result' = [kind |-> "raise", exc |-> "AssertionError"]
                /\ UNCHANGED <<calls, params>>
           ELSE IF ~PyIndexValid(models, model_id)
           THEN /\ result' = [kind |-> "raise", exc |-> "IndexError"]
                /\ calls' = calls \o iter_calls
                /\ UNCHANGED params
           ELSE LET model == SubModel(models, model_id)
                IN  /\ calls' = calls \o iter_calls \o
                           << [fn |-> "trainer.train_single_model",
                               args |-> <<train_iter, eval_iter, model>>] >>
                    /\ params' = TrainerTrain(params, model)
                    /\ result' = [kind |-> "return", model |-> model]
        /\ UNCHANGED <<models, formatVars, config>>

TrainSingleModelStep ==
    \E model_id \in (0 - 1)..MaxModels, kwargs \in Kwargs :
        TrainSingleModel(model_id, kwargs)

\* sub-model objects are named 101, 102, ...
ModelObject(k) == 100 + k

InitEnsemble ==
    /\ \E n \in 0..MaxModels : models = [k \in 1..n |-> ModelObject(k)]
    /\ params = [m \in {ModelObject(k) : k \in 1..MaxModels} |-> 0]
    /\ calls = <<>>
    /\ invocation = NoInvocation
    /\ n_invocations = 0
    /\ result = NoResult

IdleEnsemble ==
    /\ models = <<>>
    /\ params = [m \in {} |-> 0]
    /\ calls = <<>>
    /\ invocation = NoInvocation
    /\ n_invocations = 0
    /\ result = NoResult

(* ============================ Task.Config ============================== *)
Tasks == {"QueryDocumentPairwiseRankingTask", "EnsembleTask", "DocClassificationTask",
          "WordTaggingTask", "JointTextTask", "LMTask", "PairClassificationTask",
          "SeqNNTask", "ContextualIntentSlotTask", "SemanticParsingTask",
          "KDDocClassificationTask"}

\* marks a field the class body annotates without assigning a default
NoDefault == "<no default>"

\* the fields each Config class body annotates, with the default it assigns
ClassBody(task) ==
    CASE task = "QueryDocumentPairwiseRankingTask" ->
             [features |-> "QueryDocumentPairwiseRanking.ModelInputConfig()",
              model |-> "QueryDocumentPairwiseRankingModel.Config()",
              data_handler |-> "QueryDocumentPairwiseRankingDataHandler.Config()",
              trainer |-> "Trainer.Config()",
              labels |-> "None",
              metric_reporter |-> "PairwiseRankingMetricReporter.Config()"]
      [] task = "EnsembleTask" ->
             [model |-> NoDefault,
              trainer |-> "EnsembleTrainer.Config()",
              labels |-> NoDefault,
              metric_reporter |-> "ClassificationMetricReporter.Config()",
              data_handler |-> "JointModelDataHandler.Config()"]
      [] task = "DocClassificationTask" ->
             [model |-> "DocModel.Config()",
              trainer |-> "Trainer.Config()",
              features |-> "DocClassification.ModelInputConfig()",
              labels |-> "DocClassification.TargetConfig()",
              data_handler |-> "DocClassificationDataHandler.Config()",
              metric_reporter |-> "ClassificationMetricReporter.Config()"]
      [] task = "WordTaggingTask" ->
             [model |-> "WordTaggingModel.Config()",
              trainer |-> "Trainer.Config()",
              labels |-> "WordLabelConfig()",
              data_handler |-> "JointModelDataHandler.Config()",
              metric_reporter |-> "WordTaggingMetricReporter.Config()"]
      [] task = "JointTextTask" ->
             [labels |-> NoDefault,
              model |-> "JointModel.Config()",
              trainer |-> "Trainer.Config()",
              data_handler |-> "JointModelDataHandler.Config()",
              metric_reporter |-> "IntentSlotMetricReporter.Config()"]
      [] task = "LMTask" ->
             [data_handler |-> "LanguageModelDataHandler.Config()",
              model |-> "LMLSTM.Config()",
              trainer |-> "Trainer.Config()",
              labels |-> "None",
              metric_reporter |-> "LanguageModelMetricReporter.Config()"]
      [] task = "PairClassificationTask" ->
             [features |-> "PairClassification.ModelInputConfig()",
              model |-> "PairClassificationModel.Config()",
              data_handler |-> "PairClassificationDataHandler.Config()",
              trainer |-> "Trainer.Config()",
              labels |-> "PairClassification.TargetConfig()",
              metric_reporter |-> "ClassificationMetricReporter.Config()"]
      [] task = "SeqNNTask" ->
             [model |-> "SeqNNModel.Config()",
              trainer |-> "Trainer.Config()",
              labels |-> "DocLabelConfig()",
              data_handler |-> "SeqModelDataHandler.Config()",
              metric_reporter |-> "ClassificationMetricReporter.Config()"]
      [] task = "ContextualIntentSlotTask" ->
             [labels |-> NoDefault,
              features |-> "ContextualIntentSlot.ModelInputConfig()",
              model |-> "ContextualIntentSlotModel.Config()",
              trainer |-> "Trainer.Config()",
              data_handler |-> "ContextualIntentSlotModelDataHandler.Config()",
              metric_reporter |-> "IntentSlotMetricReporter.Config()"]
      [] task = "SemanticParsingTask" ->
             [model |-> "RNNGParser.Config()",
              trainer |-> "HogwildTrainer.Config()",
              data_handler |-> "CompositionalDataHandler.Config()",
              labels |-> "None",
              metric_reporter |-> "CompositionalMetricReporter.Config()"]
      [] task = "KDDocClassificationTask" ->
             [model |-> "DocModel.Config()",
              trainer |-> "Trainer.Config()",
              features |-> "DocClassification.ModelInputConfig()",
              labels |-> "KDDocClassification.TargetConfig()",
              data_handler |-> "KDDocClassificationDataHandler.Config()",
              metric_reporter |-> "ClassificationMetricReporter.Config()"]

Annotations(task) == DOMAIN ClassBody(task)

\* a class body that leaves the trainer default to the base Task.Config
DefaultsBaseTrainer(task) ==
    [f \in {g \in DOMAIN ClassBody(task) : ClassBody(task)[g] # NoDefault} |->
        IF f = "trainer" THEN "Trainer.Config()" ELSE ClassBody(task)[f]]

\* the class-level defaults: the fields the class body assigns a value to
Defaults(task) ==
    [f \in {g \in DOMAIN ClassBody(task) : ClassBody(task)[g] # NoDefault} |->
        ClassBody(task)[f]]

RequiredFields(task) == Annotations(task) \ DOMAIN Defaults(task)

\* Config(**kwargs): a missing required field is a validation error, otherwise
\* every field holds the supplied value or its declared default
Construct(task, supplied) ==
    IF ~(RequiredFields(task) \subseteq supplied)
    THEN [task |-> task, supplied |-> supplied, kind |-> "raise", fields |-> <<>>]
    ELSE [task |-> task, supplied |-> supplied, kind |-> "config",
          fields |-> [f \in Annotations(task) |->
                          IF f \in supplied THEN "<supplied>" ELSE Defaults(task)[f]]]

NoConfig == [task |-> "", supplied |-> {}, kind |-> "none", fields |-> <<>>]

ConstructConfig ==
    /\ \E task \in Tasks, supplied \in SUBSET {"features", "model", "data_handler",
                                             "trainer", "labels", "metric_reporter"} :
           /\ supplied \subseteq Annotations(task)
           /\ config' = Construct(task, supplied)
    /\ UNCHANGED <<ensembleVars, formatVars>>

IdleConfig == config = NoConfig

(* ========================== format_prediction ========================== *)
TOKEN_RANGE == "token_range"

Classes == {"DocClassificationTask", "WordTaggingTask", "JointTextTask"}

\* what resuming a generator produces: a record, exhaustion or an exception
Yield(value) == [kind |-> "yield", value |-> value]
Stop == [kind |-> "stop"]
Raise(exc) == [kind |-> "raise", exc |-> exc]

\* zip(...) is exhausted at position i when any of its iterables has no item i
ZipExhausted(lens, i) == \E l \in lens : i + 1 > l

\* the number of tuples zip(...) produces
ZipLen(lens) == CHOOSE m \in lens : \A l \in lens : m <= l

\* DocClassificationTask.format_prediction that looks every prediction up
\* before yielding the first record
DocFormatPredictionEager(preds, scrs, ctx, meta, i) ==
    LET target_names == meta.vocab.itos
        n == ZipLen({Len(preds), Len(scrs)})
    IN  IF ZipExhausted({Len(preds), Len(scrs)}, i) THEN Stop
        ELSE IF \E k \in 1..n : ~PyIndexValid(target_names, preds[k])
        THEN Raise("IndexError")
        ELSE Yield([prediction |-> PyGetItem(target_names, preds[i + 1]),
                    score |-> ZipDict(target_names, scrs[i + 1])])

\* DocClassificationTask.format_prediction that rejects sequences of unequal length
DocFormatPredictionStrict(preds, scrs, ctx, meta, i) ==
    LET target_names == meta.vocab.itos
    IN  IF Len(preds) # Len(scrs) THEN Raise("ValueError")
        ELSE IF ZipExhausted({Len(preds), Len(scrs)}, i) THEN Stop
        ELSE IF ~PyIndexValid(target_names, preds[i + 1]) THEN Raise("IndexError")
        ELSE Yield([prediction |-> PyGetItem(target_names, preds[i + 1]),
                    score |-> ZipDict(target_names, scrs[i + 1])])

\* DocClassificationTask.format_prediction that names every record after the
\* first vocabulary entry
DocFormatPredictionFirstName(preds, scrs, ctx, meta, i) ==
    LET target_names == meta.vocab.itos
    IN  IF ZipExhausted({Len(preds), Len(scrs)}, i) THEN Stop
        ELSE IF ~PyIndexValid(target_names, preds[i + 1]) THEN Raise("IndexError")
        ELSE Yield([prediction |-> PyGetItem(target_names, 0),
                    score |-> ZipDict(target_names, scrs[i + 1])])

\* DocClassificationTask.format_prediction that pairs the names with the scores
\* in reverse order
DocFormatPredictionReversedScore(preds, scrs, ctx, meta, i) ==
    LET target_names == meta.vocab.itos
        rev(v) == [k \in 1..Len(v) |-> v[Len(v) + 1 - k]]
    IN  IF ZipExhausted({Len(preds), Len(scrs)}, i) THEN Stop
        ELSE IF ~PyIndexValid(target_names, preds[i + 1]) THEN Raise("IndexError")
        ELSE Yield([prediction |-> PyGetItem(target_names, preds[i + 1]),
                    score |-> ZipDict(target_names, rev(scrs[i + 1]))])

\* DocClassificationTask.format_prediction, resumed after it yielded i records
DocFormatPrediction(preds, scrs, ctx, meta, i) ==
    LET target_names == meta.vocab.itos
    IN  IF ZipExhausted({Len(preds), Len(scrs)}, i) THEN Stop
        ELSE LET prediction == preds[i + 1]
                 score == scrs[i + 1]
                 score_with_name == ZipDict(target_names, score)
             IN  IF ~PyIndexValid(target_names, prediction) THEN Raise("IndexError")
                 ELSE Yield([prediction |-> PyGetItem(target_names, prediction),
                             score |-> score_with_name])

\* WordTaggingTask.format_prediction that gives every record the first token
\* range of its example
WordFormatPredictionFirstRange(preds, scrs, ctx, meta, i) ==
    LET target_names == meta.vocab.itos
        ranges == ctx[TOKEN_RANGE]
    IN  IF ZipExhausted({Len(preds), Len(scrs), Len(ranges)}, i) THEN Stop
        ELSE LET prediction == preds[i + 1]
                 score == scrs[i + 1]
                 token_ranges == ranges[i + 1]
                 n == ZipLen({Len(prediction), Len(score), Len(token_ranges)})
             IN  IF \E j \in 1..n : ~PyIndexValid(target_names, prediction[j])
                 THEN Raise("IndexError")
                 ELSE Yield([j \in 1..n |->
                                [prediction |-> PyGetItem(target_names, prediction[j]),
                                 score |-> ZipDict(target_names, score[j]),
                                 token_range |-> token_ranges[1]]])

\* WordTaggingTask.format_prediction, resumed after it yielded i record sequences
WordFormatPrediction(preds, scrs, ctx, meta, i) ==
    LET target_names == meta.vocab.itos
        ranges == ctx[TOKEN_RANGE]
    IN  IF ZipExhausted({Len(preds), Len(scrs), Len(ranges)}, i) THEN Stop
        ELSE LET prediction == preds[i + 1]
                 score == scrs[i + 1]
                 token_ranges == ranges[i + 1]
                 n == ZipLen({Len(prediction), Len(score), Len(token_ranges)})
             IN  IF \E j \in 1..n : ~PyIndexValid(target_names, prediction[j])
                 THEN Raise("IndexError")
                 ELSE Yield([j \in 1..n |->
                                [prediction |-> PyGetItem(target_names, prediction[j]),
                                 score |-> ZipDict(target_names, score[j]),
                                 token_range |-> token_ranges[j]]])

\* JointTextTask.format_prediction that hands the word-level target metadata to
\* the document formatter as well
JointFormatPredictionOneMeta(preds, scrs, ctx, meta, i) ==
    LET intent == DocFormatPrediction(preds[1], scrs[1], ctx, meta[2], i)
        slot == WordFormatPrediction(preds[2], scrs[2], ctx, meta[2], i)
    IN  IF intent.kind # "yield" THEN intent
        ELSE IF slot.kind # "yield" THEN slot
        ELSE Yield([intent |-> intent.value, slot |-> slot.value])

\* JointTextTask.format_prediction that stops only when the document formatter
\* does and pads the missing slots with empty sequences
JointFormatPredictionDocLength(preds, scrs, ctx, meta, i) ==
    LET intent == DocFormatPrediction(preds[1], scrs[1], ctx, meta[1], i)
        slot == WordFormatPrediction(preds[2], scrs[2], ctx, meta[2], i)
    IN  IF intent.kind # "yield" THEN intent
        ELSE IF slot.kind = "raise" THEN slot
        ELSE IF slot.kind = "stop" THEN Yield([intent |-> intent.value, slot |-> <<>>])
        ELSE Yield([intent |-> intent.value, slot |-> slot.value])

\* JointTextTask.format_prediction, resumed after it yielded i records: zip asks
\* the document generator first and the word generator second
JointFormatPrediction(preds, scrs, ctx, meta, i) ==
    LET doc_preds == preds[1]
        word_preds == preds[2]
        doc_scores == scrs[1]
        word_scores == scrs[2]
        doc_target_meta == meta[1]
        word_target_meta == meta[2]
        intent == DocFormatPrediction(doc_preds, doc_scores, ctx, doc_target_meta, i)
        slot == WordFormatPrediction(word_preds, word_scores, ctx, word_target_meta, i)
    IN  IF intent.kind # "yield" THEN intent
        ELSE IF slot.kind # "yield" THEN slot
        ELSE Yield([intent |-> intent.value, slot |-> slot.value])

\* calling format_prediction creates the generator object and runs none of its body
FormatPredictionCall ==
    /\ pc = "not_called"
    /\ pc' = "created"
    /\ UNCHANGED <<out, inputVars, ensembleVars, config>>

\* next(generator): the generator runs to its next yield, its end or an exception
Resume(item) ==
    /\ pc \in {"created", "suspended"}
    /\ IF item.kind = "yield"
       THEN pc' = "suspended" /\ out' = Append(out, item.value)
       ELSE IF item.kind = "stop"
       THEN pc' = "done" /\ out' = out
       ELSE pc' = "error" /\ out' = out
    /\ UNCHANGED <<inputVars, ensembleVars, config>>

DocNext ==
    /\ cls = "DocClassificationTask"
    /\ Resume(DocFormatPrediction(predictions, scores, context, target_meta, Len(out)))

WordNext ==
    /\ cls = "WordTaggingTask"
    /\ Resume(WordFormatPrediction(predictions, scores, context, target_meta, Len(out)))

JointNext ==
    /\ cls = "JointTextTask"
    /\ Resume(JointFormatPrediction(predictions, scores, context, target_meta, Len(out)))

(* ------------------------- formatting inputs --------------------------- *)
DocNames == <<"POS", "NEG", "NEU", "MIX", "OTHER">>
WordNames == <<"B-loc", "I-loc", "B-time", "I-time", "NoLabel">>

\* target metadata whose vocabulary holds the first v names
Meta(names, v) == [vocab |-> [itos |-> SubSeq(names, 1, v)]]

\* predicted indices: MaxVocab is no index of a vocabulary of at most MaxVocab names
Indices == 0..MaxVocab

SeqsUpTo(S, n) == UNION {[1..m -> S] : m \in 0..n}

\* a score vector of m distinct scores
ScoreVec(base, m) == [k \in 1..m |-> base + k]

\* the score vectors of a batch of documents whose vectors have lengths lens
DocScores(lens) == [i \in 1..Len(lens) |-> ScoreVec(10 * i, lens[i])]

\* a batch of n examples padded to t tokens, the indices counting on from b in
\* steps of c
WordPreds(n, t, b, c) ==
    [i \in 1..n |-> [j \in 1..t |-> (b + c * ((i - 1) * t + (j - 1))) % (MaxVocab + 1)]]

WordScores(n, t) ==
    [i \in 1..n |-> [j \in 1..t |-> ScoreVec(100 * i + 10 * j, MaxVocab)]]

\* the token ranges of examples that have counts[i] tokens
TokenRanges(counts) ==
    [i \in 1..Len(counts) |-> [j \in 1..counts[i] |-> <<10 * i + j, 10 * i + j + 1>>]]

Uniform(n, x) == [i \in 1..n |-> x]

InitDoc ==
    /\ cls = "DocClassificationTask"
    /\ predictions \in SeqsUpTo((0 - 1)..MaxVocab, MaxExamples)
    /\ \E lens \in SeqsUpTo(0..MaxVocab + 1, MaxExamples) : scores = DocScores(lens)
    /\ context = [token_range |-> <<>>]
    /\ \E v \in 1..MaxVocab : target_meta = Meta(DocNames, v)

InitWord ==
    /\ cls = "WordTaggingTask"
    /\ \E n \in 0..MaxExamples, t \in 0..MaxTokens, b \in Indices, c \in 0..1 :
           predictions = WordPreds(n, t, b, c)
    /\ \E n \in 0..MaxExamples, t \in 0..MaxTokens : scores = WordScores(n, t)
    /\ \E counts \in SeqsUpTo(0..MaxTokens, MaxExamples) :
           context = [token_range |-> TokenRanges(counts)]
    /\ \E v \in 1..MaxVocab : target_meta = Meta(WordNames, v)

InitJoint ==
    /\ cls = "JointTextTask"
    /\ \E nd \in 0..MaxExamples, bd \in Indices,
          nw \in 0..MaxExamples, t \in 0..MaxTokens, bw \in Indices, c \in 0..1 :
           predictions = << [i \in 1..nd |-> (bd + i - 1) % (MaxVocab + 1)],
                            WordPreds(nw, t, bw, c) >>
    /\ \E nd \in 0..MaxExamples, nw \in 0..MaxExamples :
           scores = << DocScores(Uniform(nd, MaxVocab)), WordScores(nw, MaxTokens) >>
    /\ \E nr \in 0..MaxExamples :
           context = [token_range |-> TokenRanges(Uniform(nr, MaxTokens))]
    /\ \E v \in 1..MaxVocab :
           target_meta = << Meta(DocNames, v), Meta(WordNames, MaxVocab) >>

InitFormat ==
    /\ InitDoc \/ InitWord \/ InitJoint
    /\ pc = "not_called"
    /\ out = <<>>

IdleFormat ==
    /\ cls = "none"
    /\ predictions = <<>>
    /\ scores = <<>>
    /\ context = [token_range |-> <<>>]
    /\ target_meta = Meta(DocNames, 0)
    /\ pc = "not_called"
    /\ out = <<>>

(* =========================== specifications ============================ *)
InitSpecEnsemble == InitEnsemble /\ IdleFormat /\ IdleConfig

SpecEnsemble == InitSpecEnsemble /\ [][TrainSingleModelStep]_vars

InitSpecFormat == IdleEnsemble /\ InitFormat /\ IdleConfig

NextFormat == FormatPredictionCall \/ DocNext \/ WordNext \/ JointNext

SpecFormat == InitSpecFormat /\ [][NextFormat]_vars

InitSpecConfig == IdleEnsemble /\ IdleFormat /\ IdleConfig

SpecConfig == InitSpecConfig /\ [][ConstructConfig]_vars

(* =============================== claims =============================== *)
\* the latest step invoked train_single_model
Invoked == n_invocations' = n_invocations + 1

TrainerCalls == {k \in 1..Len(calls) : calls[k].fn = "trainer.train_single_model"}

\* C1: a model_id below 0 or at least len(models) makes train_single_model fail
\* with an assertion error before any call on the data handler or the trainer,
\* and no sub-model is trained.
C1_OutOfRangeAsserts ==
    [][(Invoked /\ (invocation'.model_id < 0 \/ invocation'.model_id >= Len(models)))
          => /\ result'.kind = "raise"
             /\ result'.exc = "AssertionError"
             /\ calls' = calls
             /\ params' = params]_vars

C1_Witness ==
    /\ Len(models) > 0
    /\ Len(calls) > 0
    /\ invocation.model_id >= Len(models)
    /\ result.kind = "raise"

\* C2: a model_id in range makes exactly the calls get_train_iter(rank, world_size)
\* (rank 0 and world_size 1 when left out), get_eval_iter() and one
\* trainer.train_single_model on those two iterators and models[model_id]; every
\* other sub-model is neither handed to the trainer nor changed, in any sequence
\* of invocations.
C2_TrainsOnlyIndexedModel ==
    /\ [][(Invoked /\ invocation'.model_id >= 0 /\ invocation'.model_id < Len(models))
            => LET kw == invocation'.kwargs
                   rank == IF kw.rank = {} THEN 0 ELSE CHOOSE x \in kw.rank : TRUE
                   world_size == IF kw.world_size = {} THEN 1
                                 ELSE CHOOSE x \in kw.world_size : TRUE
                   target == models[invocation'.model_id + 1]
               IN  /\ calls' = calls \o
                         << [fn |-> "get_train_iter", args |-> <<rank, world_size>>],
                            [fn |-> "get_eval_iter", args |-> <<>>],
                            [fn |-> "trainer.train_single_model",
                             args |-> << [iter |-> "train", rank |-> rank,
                                          world_size |-> world_size],
                                         [iter |-> "eval"], target >>] >>
                   /\ params'[target] = params[target] + 1
                   /\ \A m \in DOMAIN params : m # target => params'[m] = params[m]]_vars
    /\ [](\A m \in DOMAIN params :
              params[m] = Cardinality({k \in TrainerCalls : calls[k].args[3] = m}))

C2_Witness ==
    /\ Len(models) = 2
    /\ invocation.model_id = 1
    /\ invocation.kwargs.rank = {}
    /\ result.kind = "return"
    /\ params[ModelObject(2)] = 1
    /\ params[ModelObject(1)] = 1

\* C9: a Config is constructed exactly when every field without a declared default
\* is supplied (model and labels for EnsembleTask, labels for JointTextTask and
\* ContextualIntentSlotTask, nothing for the other tasks); a failed construction
\* yields no config, and a successful one holds the declared default in every
\* omitted field, the trainer default being EnsembleTrainer.Config() for the
\* ensemble task, HogwildTrainer.Config() for semantic parsing and
\* Trainer.Config() everywhere else.
C9_ConfigDefaults ==
    config.kind # "none" =>
        LET required == CASE config.task = "EnsembleTask" -> {"model", "labels"}
                          [] config.task \in {"JointTextTask", "ContextualIntentSlotTask"}
                                 -> {"labels"}
                          [] OTHER -> {}
            trainer == CASE config.task = "EnsembleTask" -> "EnsembleTrainer.Config()"
                         [] config.task = "SemanticParsingTask" -> "HogwildTrainer.Config()"
                         [] OTHER -> "Trainer.Config()"
        IN  /\ (config.kind = "config") <=> (required \subseteq config.supplied)
            /\ config.kind = "raise" => config.fields = <<>>
            /\ config.kind = "config" =>
                 /\ DOMAIN config.fields = DOMAIN ClassBody(config.task)
                 /\ \A f \in DOMAIN config.fields \ config.supplied :
                        /\ config.fields[f] = ClassBody(config.task)[f]
                        /\ config.fields[f] # NoDefault
                 /\ "trainer" \notin config.supplied => config.fields.trainer = trainer

C9_Witness ==
    /\ config.kind = "config"
    /\ config.task = "EnsembleTask"
    /\ config.supplied = {"model", "labels"}

(* ---------------------- format_prediction claims ----------------------- *)
IsDoc == cls = "DocClassificationTask"
IsWord == cls = "WordTaggingTask"
IsJoint == cls = "JointTextTask"

Min3(a, b, c) == Min(a, Min(b, c))

\* the name a vocabulary holds at a predicted index, read as Python reads it
NameAt(itos, p) == IF p >= 0 THEN itos[p + 1] ELSE itos[Len(itos) + p + 1]

ValidIndex(itos, p) == 0 - Len(itos) <= p /\ p < Len(itos)

\* the names of the first m vocabulary entries mapped to the scores at the
\* same positions
ScoreMap(itos, score, m) ==
    [n \in {itos[k] : k \in 1..m} |-> score[CHOOSE k \in 1..m : itos[k] = n]]

\* the document record that prediction p and score vector s determine
RefDocRecord(p, s, itos) ==
    [prediction |-> NameAt(itos, p), score |-> ScoreMap(itos, s, Min(Len(itos), Len(s)))]

\* the record sequence that one example's predictions, scores and ranges determine
RefWordRecords(p, s, r, itos) ==
    [j \in 1..Min3(Len(p), Len(s), Len(r)) |->
        [prediction |-> NameAt(itos, p[j]),
         score |-> ScoreMap(itos, s[j], Min(Len(itos), Len(s[j]))),
         token_range |-> r[j]]]

\* C3: record i of the document formatter names the vocabulary entry at the
\* i-th predicted index.
C3_PredictionIsNameAtIndex ==
    IsDoc => \A i \in 1..Len(out) :
                 out[i].prediction = NameAt(target_meta.vocab.itos, predictions[i])

C3_Witness ==
    /\ IsDoc
    /\ Len(out) = 2
    /\ predictions[1] = 1
    /\ predictions[2] = 0

\* C4 as stated: whatever the length of the score vector, the score mapping of
\* every document record has exactly the vocabulary names as keys, the name at
\* vocabulary index k mapped to the example's score at position k.
C4_Original ==
    IsDoc => \A i \in 1..Len(out) :
                 LET itos == target_meta.vocab.itos
                 IN  /\ DOMAIN out[i].score = {itos[k] : k \in 1..Len(itos)}
                     /\ \A k \in 1..Len(itos) : out[i].score[itos[k]] = scores[i][k]

\* C4 amended: the keys of the score mapping are the names at the first
\* min(len(itos), len(score)) vocabulary indices, each mapped to the score at its
\* position; they are all the vocabulary names when the score vector is at least
\* as long as the vocabulary.
C4_ScoreMapTruncated ==
    IsDoc => \A i \in 1..Len(out) :
                 LET itos == target_meta.vocab.itos
                     m == Min(Len(itos), Len(scores[i]))
                 IN  /\ DOMAIN out[i].score = {itos[k] : k \in 1..m}
                     /\ \A k \in 1..m : out[i].score[itos[k]] = scores[i][k]
                     /\ Len(scores[i]) >= Len(itos) =>
                            DOMAIN out[i].score = {itos[k] : k \in 1..Len(itos)}

C4_Witness ==
    /\ IsDoc
    /\ Len(out) = 2
    /\ Len(scores[1]) = 1
    /\ Len(scores[2]) > Len(target_meta.vocab.itos)

\* C5 as stated: the word-tagging formatter yields as many record sequences as
\* there are input examples, and sequence i has as many records as example i has
\* token ranges, record j carrying token range j.
C5_Original ==
    (IsWord /\ pc = "done") =>
        /\ Len(out) = Len(predictions)
        /\ \A i \in 1..Len(out) :
               /\ Len(out[i]) = Len(context[TOKEN_RANGE][i])
               /\ \A j \in 1..Len(out[i]) :
                      out[i][j].token_range = context[TOKEN_RANGE][i][j]

\* C5 amended: when predictions, scores and token ranges hold the same number of
\* examples, a formatter that runs to exhaustion yields one record sequence per
\* example; and every sequence yielded for an example whose prediction and score
\* sequences are at least as long as its token-range list has as many records as
\* the example has token ranges, record j carrying token range j.
C5_AlignedWithTokenRanges ==
    IsWord =>
        LET ranges == context[TOKEN_RANGE]
        IN  /\ (pc = "done" /\ Len(predictions) = Len(ranges) /\ Len(scores) = Len(ranges))
                   => Len(out) = Len(ranges)
            /\ \A i \in 1..Len(out) :
                   (Len(predictions[i]) >= Len(ranges[i]) /\ Len(scores[i]) >= Len(ranges[i]))
                       => /\ Len(out[i]) = Len(ranges[i])
                          /\ \A j \in 1..Len(out[i]) : out[i][j].token_range = ranges[i][j]

C5_Witness ==
    /\ IsWord
    /\ pc = "done"
    /\ Len(out) = 2
    /\ Len(predictions) = 2
    /\ Len(out[1]) = 1
    /\ Len(out[2]) = 2
    /\ Len(predictions[1]) = 2

\* C6 as stated: the joint formatter yields min(len(doc_preds), len(word_preds))
\* records, whatever the lengths of the scores and of the token-range list.
C6_Original ==
    (IsJoint /\ pc = "done") =>
        Len(out) = Min(Len(predictions[1]), Len(predictions[2]))

\* C6 amended: a joint formatter that runs to exhaustion yields as many records
\* as the shortest of doc_preds, doc_scores, word_preds, word_scores and the
\* context's token-range list.
C6_JointLengthIsShortest ==
    (IsJoint /\ pc = "done") =>
        Len(out) = Min(Min(Len(predictions[1]), Len(scores[1])),
                       Min3(Len(predictions[2]), Len(scores[2]), Len(context[TOKEN_RANGE])))

C6_Witness ==
    /\ IsJoint
    /\ pc = "done"
    /\ Len(out) = 1
    /\ Len(predictions[1]) = 2
    /\ Len(predictions[2]) = 2
    /\ Len(scores[1]) = 2
    /\ Len(scores[2]) = 1

\* C7: record i of the joint formatter is the pair of the i-th record of the
\* document formatter run on the document-level inputs alone and the i-th record
\* sequence of the word-tagging formatter run on the word-level inputs alone.
C7_JointIsPairOfFormatters ==
    IsJoint => \A i \in 1..Len(out) :
        LET d == DocFormatPrediction(predictions[1], scores[1], context,
                                     target_meta[1], i - 1)
            w == WordFormatPrediction(predictions[2], scores[2], context,
                                      target_meta[2], i - 1)
        IN  /\ d.kind = "yield"
            /\ w.kind = "yield"
            /\ out[i] = [intent |-> d.value, slot |-> w.value]
            /\ d.value = RefDocRecord(predictions[1][i], scores[1][i],
                                      target_meta[1].vocab.itos)
            /\ w.value = RefWordRecords(predictions[2][i], scores[2][i],
                                        context[TOKEN_RANGE][i], target_meta[2].vocab.itos)

C7_Witness ==
    /\ IsJoint
    /\ Len(out) = 2
    /\ Len(out[2].slot) = 2
    /\ out[1].intent.prediction # out[2].intent.prediction

\* C8: sequences of different lengths raise no error (only a predicted index that
\* is no index of the vocabulary does) and the output stops at the shortest: the
\* document formatter yields min(len(predictions), len(scores)) records, the
\* word-tagging formatter min(len(predictions), len(scores), len(token_ranges))
\* sequences, and the sequence of one example has
\* min(len(prediction), len(score), len(token_ranges)) records.
C8_TruncatesToShortest ==
    /\ IsDoc =>
          /\ pc = "done" => Len(out) = Min(Len(predictions), Len(scores))
          /\ pc = "error" =>
                 /\ Len(out) < Min(Len(predictions), Len(scores))
                 /\ ~ValidIndex(target_meta.vocab.itos, predictions[Len(out) + 1])
    /\ IsWord =>
          LET ranges == context[TOKEN_RANGE]
              inner(i) == Min3(Len(predictions[i]), Len(scores[i]), Len(ranges[i]))
          IN  /\ pc = "done" => Len(out) = Min3(Len(predictions), Len(scores), Len(ranges))
              /\ \A i \in 1..Len(out) : Len(out[i]) = inner(i)
              /\ pc = "error" =>
                     /\ Len(out) < Min3(Len(predictions), Len(scores), Len(ranges))
                     /\ \E j \in 1..inner(Len(out) + 1) :
                            ~ValidIndex(target_meta.vocab.itos, predictions[Len(out) + 1][j])

C8_Witness ==
    /\ IsWord
    /\ pc = "done"
    /\ Len(out) = 1
    /\ Len(predictions) = 2
    /\ Len(scores) = 1
    /\ Len(out[1]) = 1
    /\ Len(predictions[1]) = 2
    /\ Len(context[TOKEN_RANGE][1]) = 1

\* the record that position k of the inputs determines
RefRecord(k) ==
    CASE IsDoc -> RefDocRecord(predictions[k], scores[k], target_meta.vocab.itos)
      [] IsWord -> RefWordRecords(predictions[k], scores[k], context[TOKEN_RANGE][k],
                                  target_meta.vocab.itos)
      [] IsJoint ->
             [intent |-> RefDocRecord(predictions[1][k], scores[1][k],
                                      target_meta[1].vocab.itos),
              slot |-> RefWordRecords(predictions[2][k], scores[2][k],
                                      context[TOKEN_RANGE][k], target_meta[2].vocab.itos)]

WordFailsAt(p, s, r, itos, k) ==
    /\ k <= Min3(Len(p), Len(s), Len(r))
    /\ \E j \in 1..Min3(Len(p[k]), Len(s[k]), Len(r[k])) : ~ValidIndex(itos, p[k][j])

DocFailsAt(p, s, itos, k) ==
    /\ k <= Min(Len(p), Len(s))
    /\ ~ValidIndex(itos, p[k])

\* position k of the inputs holds a predicted index that is no index of the vocabulary
FailsAt(k) ==
    CASE IsDoc -> DocFailsAt(predictions, scores, target_meta.vocab.itos, k)
      [] IsWord -> WordFailsAt(predictions, scores, context[TOKEN_RANGE],
                               target_meta.vocab.itos, k)
      [] IsJoint ->
             \/ DocFailsAt(predictions[1], scores[1], target_meta[1].vocab.itos, k)
             \/ WordFailsAt(predictions[2], scores[2], context[TOKEN_RANGE],
                            target_meta[2].vocab.itos, k)

\* C10: the formatters are lazy and order preserving: the call delivers nothing,
\* every request delivers at most one record, appended to the records already
\* delivered and built from the inputs at its own position; an invalid predicted
\* index at position k is raised on the request for record k with the earlier
\* records delivered and unchanged; the inputs are never modified.
C10_LazyInOrder ==
    [][/\ inputVars' = inputVars
       /\ pc = "not_called" => (pc' = "created" /\ out' = <<>>)
       /\ \/ out' = out
          \/ /\ Len(out') = Len(out) + 1
             /\ SubSeq(out', 1, Len(out)) = out
             /\ out'[Len(out')] = RefRecord(Len(out'))
       /\ pc' = "error" => (out' = out /\ FailsAt(Len(out) + 1))]_vars

C10_Witness ==
    /\ pc = "error"
    /\ Len(out) = 1

=============================================================================
